---------------------------- MODULE Spec2Model ----------------------------
(***************************************************************************)
(* A model of the cook-assistant ingredient-to-shopping-list pipeline:     *)
(*   - ShoppingList.generate_shopping_list and _categorize_items            *)
(*     (src/modules/shopping_list.py),                                     *)
(*   - the session ingredient list and its handlers (src/app.py),          *)
(*   - the Shopping List tab that renders them (src/app.py).               *)
(*                                                                         *)
(* A Python str is modelled as a sequence of one-character strings, so     *)
(* that lower(), strip(), split(',') and the substring test `kw in s` are  *)
(* computed character by character, as Python computes them.               *)
(***************************************************************************)
EXTENDS Naturals, Sequences, FiniteSets

VARIABLES
    ingredients,      \* st.session_state.ingredients: absent, or a list of str
    selected_recipe,  \* st.session_state.selected_recipe: absent, or a recipe
    missing_items,    \* outcome of the last generate_shopping_list call of tab 3
    categorized,      \* outcome of the last _categorize_items call
    display,          \* what the Shopping List tab showed last
    items,            \* the argument of the last direct _categorize_items call
    model_loaded,     \* IngredientDetector.model is not None
    detections,       \* result of the last detector.detect_from_image call
    uploaded_file,    \* the photo in the file uploader, where a specification
                      \* follows it (Spec draws one per Detect instead)
    api_response,     \* what the recipe API answers to the next request, where
                      \* a specification follows it (Spec draws one per click)
    recipes,          \* outcome of the find_recipes_by_ingredients call of
                      \* this run
    markdown,         \* data of the "Download as Markdown" button of this run
    pc                \* "idle" before an operation has run, else the operation

vars == <<ingredients, selected_recipe, missing_items, categorized, display,
          items, model_loaded, detections, uploaded_file, api_response,
          recipes, markdown, pc>>

-----------------------------------------------------------------------------
(* Bounds of the model. *)

\* longest missedIngredients / extendedIngredients list of a recipe
MaxLen == 2
\* longest available-ingredient list handed to generate_shopping_list
MaxAvail == 2
\* longest item list handed to _categorize_items directly
MaxItems == 3
\* longest text typed into the manual ingredient input
MaxText == 2
\* longest session ingredient list the model follows
MaxIngredients == 2
\* most boxes one YOLO inference returns
MaxDet == 2

-----------------------------------------------------------------------------
(* Python str, character by character. *)

UpperChars == <<"A","B","C","D","E","F","G","H","I","J","K","L","M",
                "N","O","P","Q","R","S","T","U","V","W","X","Y","Z">>
LowerChars == <<"a","b","c","d","e","f","g","h","i","j","k","l","m",
                "n","o","p","q","r","s","t","u","v","w","x","y","z">>

Range(s) == {s[i] : i \in DOMAIN s}

\* str.lower() of one character
LowerChar(c) ==
    IF \E i \in DOMAIN UpperChars : UpperChars[i] = c
    THEN LowerChars[CHOOSE i \in DOMAIN UpperChars : UpperChars[i] = c]
    ELSE c

\* str.lower()
Lower(s) == [i \in DOMAIN s |-> LowerChar(s[i])]

\* Python's `kw in s` for two str: kw occurs as a contiguous substring of s
Contains(kw, s) ==
    \E i \in 0..(Len(s) - Len(kw)) : SubSeq(s, i + 1, i + Len(kw)) = kw

IsSpace(c) == c = " "

\* str.strip(): leading and trailing whitespace removed
RECURSIVE LStrip(_)
LStrip(s) ==
    IF s # <<>> /\ IsSpace(Head(s)) THEN LStrip(Tail(s)) ELSE s

RECURSIVE RStrip(_)
RStrip(s) ==
    IF s # <<>> /\ IsSpace(s[Len(s)]) THEN RStrip(SubSeq(s, 1, Len(s) - 1)) ELSE s

Strip(s) == RStrip(LStrip(s))

\* str.split(','): the pieces between commas, empty pieces kept
RECURSIVE SplitAcc(_, _, _)
SplitAcc(s, cur, acc) ==
    IF s = <<>> THEN Append(acc, cur)
    ELSE IF Head(s) = "," THEN SplitAcc(Tail(s), <<>>, Append(acc, cur))
    ELSE SplitAcc(Tail(s), Append(cur, Head(s)), acc)

Split(s) == SplitAcc(s, <<>>, <<>>)

\* all sequences over S of length at most n
SeqsUpTo(S, n) == UNION {[1..k -> S] : k \in 0..n}

\* a Python list without duplicates
NoDup(s) == \A i, j \in DOMAIN s : s[i] = s[j] => i = j

\* list(set(xs)): the distinct elements of xs, in an order that depends on the
\* hash seed of the interpreter: any order
RECURSIVE Orderings(_)
Orderings(S) ==
    IF S = {} THEN {<<>>}
    ELSE UNION {{<<x>> \o p : p \in Orderings(S \ {x})} : x \in S}

ListOfSet(xs) == Orderings(Range(xs))

-----------------------------------------------------------------------------
(* Outcome of a Python call: a returned value, or a raised exception. *)

Ok(v) == [status |-> "ok", value |-> v]
Raise(e) == [status |-> e, value |-> <<>>]
NotCalled == [status |-> "not_called", value |-> <<>>]


-----------------------------------------------------------------------------
(* Recipe records.  A recipe is a Python dict; each of the two fields the   *)
(* code reads is absent, holds a value that is not a list (JSON null, a     *)
(* string, ...), or holds a list of entries.  An entry is a plain str or a  *)
(* dict with a 'name' field.                                                *)

PlainName(n) == [shape |-> "str", name |-> n]
NamedEntry(n) == [shape |-> "dict", name |-> n]

AbsentField == [kind |-> "absent", elems |-> <<>>]
NotListField == [kind |-> "notlist", elems |-> <<>>]
ListField(es) == [kind |-> "list", elems |-> es]

\* `key in recipe`
HasField(f) == f.kind # "absent"
\* isinstance(value, list)
IsList(f) == f.kind = "list"

Tomato == <<"T","o","m","a","t","o">>
tomato == <<"t","o","m","a","t","o">>
Onion == <<"O","n","i","o","n">>

\* the entries recipes are built from
RecipeEntries ==
    {NamedEntry(Tomato), NamedEntry(tomato), NamedEntry(Onion), PlainName(Onion)}
\* the names available-ingredient lists are built from
AvailNames == {Tomato, tomato, Onion}

EntryLists == SeqsUpTo(RecipeEntries, MaxLen)

Recipes ==
    [missedIngredients : {AbsentField, NotListField} \cup {ListField(es) : es \in EntryLists},
     extendedIngredients : {AbsentField} \cup {ListField(es) : es \in EntryLists}]

AvailLists == SeqsUpTo(AvailNames, MaxAvail)

Absent == [present |-> FALSE, value |-> <<>>]
Present(v) == [present |-> TRUE, value |-> v]

-----------------------------------------------------------------------------
(* ShoppingList.generate_shopping_list, src/modules/shopping_list.py 5-19 *)

\* ing['name'] if isinstance(ing, dict) else ing        (lines 10-11)
NameOrSelf(ing) == IF ing.shape = "dict" THEN ing.name ELSE ing.name

\* ing['name']: indexing a str with 'name' raises TypeError   (line 15)
IndexName(ing) ==
    IF ing.shape = "dict" THEN Ok(ing.name) ELSE Raise("TypeError")

\* faulty variant: the comparison without .lower()
NotAvailable_CaseSensitive(item, available) ==
    \A i \in DOMAIN available : available[i] # item

\* item.lower() not in [a.lower() for a in available_ingredients]  (line 17)
NotAvailable(item, available) ==
    \A i \in DOMAIN available : Lower(available[i]) # Lower(item)

\* faulty variant: the comprehension without its condition
FilterNeeded_KeepAll(needed, available) == needed

\* [item for item in needed if ...]                     (lines 16-17)
RECURSIVE FilterNeeded(_, _)
FilterNeeded(needed, available) ==
    IF needed = <<>> THEN <<>>
    ELSE IF NotAvailable(Head(needed), available)
         THEN <<Head(needed)>> \o FilterNeeded(Tail(needed), available)
         ELSE FilterNeeded(Tail(needed), available)

\* faulty variant: extendedIngredients tried before missedIngredients
ConsultedField_ExtFirst(recipe) ==
    IF HasField(recipe.extendedIngredients)
    THEN "extendedIngredients"
    ELSE IF HasField(recipe.missedIngredients) /\ IsList(recipe.missedIngredients)
         THEN "missedIngredients"
         ELSE "none"

\* which field of the recipe the call reads its result from (lines 7, 9, 14)
ConsultedField(recipe) ==
    IF HasField(recipe.missedIngredients) /\ IsList(recipe.missedIngredients)
    THEN "missedIngredients"
    ELSE IF HasField(recipe.extendedIngredients)
         THEN "extendedIngredients"
         ELSE "none"

\* faulty variant: recipe['extendedIngredients'] read without the `in` test of line 14
generate_shopping_list_NoDefault(recipe, available_ingredients) ==
    CASE ConsultedField(recipe) = "missedIngredients" ->
            LET missing == recipe.missedIngredients.elems
            IN  Ok([i \in DOMAIN missing |-> NameOrSelf(missing[i])])
      [] ConsultedField(recipe) = "extendedIngredients" ->
            LET ext == recipe.extendedIngredients.elems
            IN  IF \E i \in DOMAIN ext : IndexName(ext[i]).status # "ok"
                THEN Raise("TypeError")
                ELSE Ok(FilterNeeded([i \in DOMAIN ext |-> IndexName(ext[i]).value],
                                     available_ingredients))
      [] OTHER -> Raise("KeyError")

generate_shopping_list(recipe, available_ingredients) ==
    CASE ConsultedField(recipe) = "missedIngredients" ->
            LET missing == recipe.missedIngredients.elems
            IN  Ok([i \in DOMAIN missing |-> NameOrSelf(missing[i])])
      [] ConsultedField(recipe) = "extendedIngredients" ->
            LET ext == recipe.extendedIngredients.elems
            IN  IF \E i \in DOMAIN ext : IndexName(ext[i]).status # "ok"
                THEN Raise("TypeError")
                ELSE Ok(FilterNeeded([i \in DOMAIN ext |-> IndexName(ext[i]).value],
                                     available_ingredients))
      [] OTHER -> Ok(<<>>)

-----------------------------------------------------------------------------
(* ShoppingList._categorize_items, src/modules/shopping_list.py 37-71 *)

\* the keys of the `categories` dict literal, in the order it declares them
CategoryOrder == <<"Vegetables", "Fruits", "Dairy", "Meat", "Pantry", "Other">>

veg_keywords ==
    << <<"t","o","m","a","t","o">>,
       <<"l","e","t","t","u","c","e">>,
       <<"o","n","i","o","n">>,
       <<"g","a","r","l","i","c">>,
       <<"p","o","t","a","t","o">>,
       <<"c","a","r","r","o","t">> >>

fruit_keywords ==
    << <<"a","p","p","l","e">>,
       <<"b","a","n","a","n","a">>,
       <<"o","r","a","n","g","e">>,
       <<"b","e","r","r","y">> >>

dairy_keywords ==
    << <<"m","i","l","k">>,
       <<"c","h","e","e","s","e">>,
       <<"b","u","t","t","e","r">>,
       <<"y","o","g","u","r","t">> >>

meat_keywords ==
    << <<"c","h","i","c","k","e","n">>,
       <<"b","e","e","f">>,
       <<"f","i","s","h">>,
       <<"p","o","r","k">> >>

pantry_keywords ==
    << <<"f","l","o","u","r">>,
       <<"s","u","g","a","r">>,
       <<"o","i","l">>,
       <<"r","i","c","e">>,
       <<"p","a","s","t","a">> >>

\* faulty variant: `keyword == item_lower` in place of `keyword in item_lower`
AnyKeyword_Exact(keywords, item_lower) ==
    \E i \in DOMAIN keywords : keywords[i] = item_lower

\* any(keyword in item_lower for keyword in keywords)
AnyKeyword(keywords, item_lower) ==
    \E i \in DOMAIN keywords : Contains(keywords[i], item_lower)

\* the if / elif chain of the loop body                 (lines 55-68)
CategoryOf(item) ==
    LET item_lower == Lower(item)
    IN  IF AnyKeyword(veg_keywords, item_lower) THEN "Vegetables"
        ELSE IF AnyKeyword(fruit_keywords, item_lower) THEN "Fruits"
        ELSE IF AnyKeyword(dairy_keywords, item_lower) THEN "Dairy"
        ELSE IF AnyKeyword(meat_keywords, item_lower) THEN "Meat"
        ELSE IF AnyKeyword(pantry_keywords, item_lower) THEN "Pantry"
        ELSE "Other"

\* the `categories` dict before the loop                (lines 39-46)
EmptyCategories == [c \in Range(CategoryOrder) |-> <<>>]

\* faulty variant: the loop inserting each item at the front of its list
RECURSIVE CategorizeLoop_Prepend(_, _)
CategorizeLoop_Prepend(its, categories) ==
    IF its = <<>> THEN categories
    ELSE CategorizeLoop_Prepend(Tail(its),
            [categories EXCEPT ![CategoryOf(Head(its))] = <<Head(its)>> \o @])

\* for item in items: categories[...].append(item)      (lines 54-68)
RECURSIVE CategorizeLoop(_, _)
CategorizeLoop(its, categories) ==
    IF its = <<>> THEN categories
    ELSE CategorizeLoop(Tail(its),
            [categories EXCEPT ![CategoryOf(Head(its))] = Append(@, Head(its))])

\* categories.items(): the (key, value) pairs in the dict's insertion order
DictItems(categories) ==
    [i \in DOMAIN CategoryOrder |->
        [key |-> CategoryOrder[i], value |-> categories[CategoryOrder[i]]]]

\* faulty variant: the comprehension without `if v`
RemoveEmpty_KeepAll(categories) == DictItems(categories)

\* {k: v for k, v in categories.items() if v}           (line 71)
RemoveEmpty(categories) ==
    SelectSeq(DictItems(categories), LAMBDA kv : kv.value # <<>>)

\* the returned dict, as the sequence of its (key, value) pairs in iteration order
_categorize_items(its) == RemoveEmpty(CategorizeLoop(its, EmptyCategories))

-----------------------------------------------------------------------------
(* The Shopping List tab, src/app.py 433-483 *)

\* sep.join(strs)
RECURSIVE Join(_, _)
Join(sep, strs) ==
    IF strs = <<>> THEN <<>>
    ELSE IF Len(strs) = 1 THEN strs[1]
    ELSE strs[1] \o sep \o Join(sep, Tail(strs))

title_line == <<"#"," ","S","h","o","p","p","i","n","g"," ","L","i","s","t">>
item_prefix == <<"-"," ","["," ","]"," ">>

\* f"- [ ] {item}"
ItemLine(item) == item_prefix \o item

\* "# Shopping List\n\n" + "\n".join([f"- [ ] {item}" for item in missing_items])
MarkdownExport(its) ==
    title_line \o <<"\n","\n">> \o
        Join(<<"\n">>, [i \in DOMAIN its |-> ItemLine(its[i])])

\* what one run of the tab computes and shows from the session state
ShoppingListTab(recipe, avail) ==
    IF recipe.present /\ avail.present
    THEN LET result == generate_shopping_list(recipe.value, avail.value)
         IN  IF result.status # "ok"
             THEN [missing_items |-> result, categorized |-> NotCalled,
                   display |-> "exception", markdown |-> NotCalled]
             ELSE IF result.value # <<>>
             THEN [missing_items |-> result,
                   categorized |-> Ok(_categorize_items(result.value)),
                   display |-> "items_to_buy",
                   markdown |-> Ok(MarkdownExport(result.value))]
             ELSE [missing_items |-> result, categorized |-> NotCalled,
                   display |-> "have_all_ingredients", markdown |-> NotCalled]
    ELSE [missing_items |-> NotCalled, categorized |-> NotCalled,
          display |-> "select_a_recipe_first", markdown |-> NotCalled]

-----------------------------------------------------------------------------
(* IngredientDetector of the application, src/app.py 25-133.  A detection  *)
(* is the dict {'ingredient', 'confidence', 'bbox'}; confidence and bbox    *)
(* are read only by draw_detections and are left out.                       *)

apple == <<"a","p","p","l","e">>
banana == <<"b","a","n","a","n","a">>
orange == <<"o","r","a","n","g","e">>
broccoli == <<"b","r","o","c","c","o","l","i">>
carrot == <<"c","a","r","r","o","t">>
hot_dog == <<"h","o","t"," ","d","o","g">>
sausage == <<"s","a","u","s","a","g","e">>
pizza == <<"p","i","z","z","a">>
donut == <<"d","o","n","u","t">>
cake == <<"c","a","k","e">>
sandwich == <<"s","a","n","d","w","i","c","h">>
bowl == <<"b","o","w","l">>
bottle == <<"b","o","t","t","l","e">>
wine_glass == <<"w","i","n","e"," ","g","l","a","s","s">>
wine == <<"w","i","n","e">>
cup == <<"c","u","p">>
person == <<"p","e","r","s","o","n">>
vegetable == <<"v","e","g","e","t","a","b","l","e">>
lemon == <<"l","e","m","o","n">>

\* _get_food_classes: the COCO label -> ingredient dict   (lines 44-62)
food_mapping ==
    << <<apple, apple>>, <<banana, banana>>, <<orange, orange>>,
       <<broccoli, broccoli>>, <<carrot, carrot>>, <<hot_dog, sausage>>,
       <<pizza, pizza>>, <<donut, donut>>, <<cake, cake>>,
       <<sandwich, sandwich>>, <<bowl, bowl>>, <<bottle, bottle>>,
       <<wine_glass, wine>>, <<cup, cup>> >>

\* class_name in self.ingredient_classes
InIngredientClasses(class_name) ==
    \E i \in DOMAIN food_mapping : food_mapping[i][1] = class_name

\* self.ingredient_classes[class_name]
IngredientClass(class_name) ==
    food_mapping[CHOOSE i \in DOMAIN food_mapping : food_mapping[i][1] = class_name][2]

Detection(name) == [ingredient |-> name]

\* the loop over result.boxes: one detection per box whose label is mapped
\* (lines 73-87)
RECURSIVE YoloDetections(_)
YoloDetections(labels) ==
    IF labels = <<>> THEN <<>>
    ELSE IF InIngredientClasses(Head(labels))
         THEN <<Detection(IngredientClass(Head(labels)))>> \o YoloDetections(Tail(labels))
         ELSE YoloDetections(Tail(labels))

\* the names of color_ranges, in the order the loop tests them (lines 113-118)
color_ranges == <<tomato, vegetable, lemon, orange>>

\* _detect_fallback (lines 99-133).  image.kind is "error" when cv2 raises,
\* "unreadable" when cv2.imread returns None, else "pixels"; image.masks is the
\* set of colour ranges whose mask has more than 100 pixels.
_detect_fallback(image) ==
    IF image.kind # "pixels" THEN <<>>
    ELSE LET hit == SelectSeq(color_ranges, LAMBDA name : name \in image.masks)
         IN  [i \in DOMAIN hit |-> Detection(hit[i])]

\* detect_from_image (lines 64-97).  image.yolo is "error" when the inference
\* raises, else image.labels holds the class names of the boxes it returned.
detect_from_image(loaded, image) ==
    IF loaded /\ image.yolo = "ok" /\ YoloDetections(image.labels) # <<>>
    THEN YoloDetections(image.labels)
    ELSE _detect_fallback(image)

\* the class names a YOLO inference returns in the model
YoloLabels == {hot_dog, person}

\* the uploaded images, as far as the detector can tell them apart
Images ==
    [yolo : {"ok", "error"}, labels : SeqsUpTo(YoloLabels, MaxDet),
     kind : {"pixels", "unreadable", "error"}, masks : SUBSET Range(color_ranges)]

\* no photo followed
NoUpload == [yolo |-> "none", labels |-> <<>>, kind |-> "none", masks |-> {}]

\* no API answer followed
NoResponse == [outcome |-> "none", status_code |-> 0, body |-> "none", recipes |-> <<>>]

\* every result detect_from_image can return for some uploaded image
DetectResultsWithModel == {detect_from_image(TRUE, image) : image \in Images}
DetectResultsWithoutModel == {detect_from_image(FALSE, image) : image \in Images}
DetectResults(loaded) ==
    IF loaded THEN DetectResultsWithModel ELSE DetectResultsWithoutModel

-----------------------------------------------------------------------------
(* RecipeFinder, src/modules/recipe_finder.py *)

MaxFind == 6
MaxApi == 1

onion == <<"o","n","i","o","n">>
lettuce == <<"l","e","t","t","u","c","e">>
walnuts == <<"w","a","l","n","u","t","s">>
dressing == <<"d","r","e","s","s","i","n","g">>
salsa == <<"s","a","l","s","a">>
basil == <<"b","a","s","i","l">>
pasta == <<"p","a","s","t","a">>

\* recipes_db['apple'][0] and recipes_db['tomato'][0]    (lines 49-68)
AppleSalad ==
    [id |-> 1, title |-> "Apple Salad", usedIngredientCount |-> 1,
     missedIngredientCount |-> 3,
     missedIngredients |-> <<lettuce, walnuts, dressing>>]
TomatoPasta ==
    [id |-> 2, title |-> "Tomato Pasta", usedIngredientCount |-> 1,
     missedIngredientCount |-> 2, missedIngredients |-> <<pasta, basil>>]

\* recipes_db[ingredient], empty when the key is missing
recipes_db(ingredient) ==
    IF ingredient = apple THEN <<AppleSalad>>
    ELSE IF ingredient = tomato THEN <<TomatoPasta>>
    ELSE <<>>

\* for ingredient in ingredients: if ingredient in recipes_db:
\*     all_recipes.extend(recipes_db[ingredient])           (lines 71-75)
RECURSIVE all_recipes(_)
all_recipes(ings) ==
    IF ings = <<>> THEN <<>>
    ELSE recipes_db(Head(ings)) \o all_recipes(Tail(ings))

\* _get_fallback_recipes: all_recipes[:5]                  (lines 47-77)
_get_fallback_recipes(ings) ==
    LET all == all_recipes(ings)
    IN  IF Len(all) <= 5 THEN all ELSE SubSeq(all, 1, 5)

\* a recipe as the API returns it
ApiSalsa ==
    [id |-> 3, title |-> "Salsa", usedIngredientCount |-> 2,
     missedIngredientCount |-> 1, missedIngredients |-> <<[name |-> salsa]>>]

ApiRecipes == {ApiSalsa}

\* what requests.get can do: raise (timeout, no connection), return a 200
\* response whose body is a JSON array of recipes, as the API documents it, or
\* no JSON at all, or return a response with another status code, whose body
\* the code does not read
ApiResponses ==
    {[outcome |-> "exception", status_code |-> 0, body |-> "none", recipes |-> <<>>]}
    \cup {[outcome |-> "response", status_code |-> 200, body |-> "array", recipes |-> rs] :
              rs \in SeqsUpTo(ApiRecipes, MaxApi)}
    \cup {[outcome |-> "response", status_code |-> 200, body |-> "not_json",
            recipes |-> <<>>]}
    \cup {[outcome |-> "response", status_code |-> c, body |-> "unread", recipes |-> <<>>] :
              c \in {402, 500}}

\* response.json()
ResponseJson(response) ==
    IF response.body = "array" THEN Ok(response.recipes)
    ELSE Raise("JSONDecodeError")

\* faulty variant: the call without the try/except of lines 25-33
find_recipes_by_ingredients_NoExcept(ings, response) ==
    IF response.outcome = "exception" THEN Raise("ConnectionError")
    ELSE IF response.status_code = 200 THEN ResponseJson(response)
    ELSE Ok(_get_fallback_recipes(ings))

\* find_recipes_by_ingredients (lines 13-33): the bare except catches the
\* exception of requests.get and the one of response.json()
find_recipes_by_ingredients(ings, response) ==
    IF response.outcome = "exception"
    THEN Ok(_get_fallback_recipes(ings))
    ELSE IF response.status_code = 200
         THEN IF ResponseJson(response).status = "ok"
              THEN ResponseJson(response)
              ELSE Ok(_get_fallback_recipes(ings))
         ELSE Ok(_get_fallback_recipes(ings))

-----------------------------------------------------------------------------
(* The session ingredient list and its handlers, src/app.py *)

\* the characters typed into the manual ingredient input in the model
TextChars == {"a", "A", ",", " "}

ManualTexts == SeqsUpTo(TextChars, MaxText) \ {<<>>}

\* [i.strip() for i in manual_ingredients.split(',')]     (line 270)
ManualList(text) ==
    LET pieces == Split(text) IN [i \in DOMAIN pieces |-> Strip(pieces[i])]

\* the new session list after `new_items` are added: extend then list(set(..))
\* when the key exists, else the new items as they are (lines 271-276, 333-338)
\* faulty variant: the add assigning the new items whether or not the key exists
AddToSession_Overwrite(old, new_items) == {Present(new_items)}

\* the add of both handlers (lines 272-278 and 333-338): extend and
\* list(set(...)) when the key exists, else assign
AddToSession(old, new_items) ==
    IF old.present
    THEN {Present(l) : l \in ListOfSet(old.value \o new_items)}
    ELSE {Present(new_items)}

\* the length of the session list after `new_items` are added
AddedLen(old, new_items) ==
    IF old.present THEN Cardinality(Range(old.value \o new_items))
    ELSE Len(new_items)

\* list.pop(idx)
Pop(l, idx) == SubSeq(l, 1, idx - 1) \o SubSeq(l, idx + 1, Len(l))

\* the rest of the script run: the Shopping List tab is rendered again
Rerun(new_ingredients) ==
    LET tab == ShoppingListTab(selected_recipe, new_ingredients)
    IN  /\ missing_items' = tab.missing_items
        /\ categorized' = tab.categorized
        /\ display' = tab.display
        /\ markdown' = tab.markdown

\* sidebar "Add Ingredients" (lines 269-278)
AddIngredients ==
    \E text \in ManualTexts :
        /\ AddedLen(ingredients, ManualList(text)) <= MaxIngredients
        /\ \E new \in AddToSession(ingredients, ManualList(text)) :
            /\ ingredients' = new
            /\ Rerun(new)
            /\ detections' = NotCalled
            /\ pc' = "add_ingredients"
            /\ recipes' = NotCalled
            /\ UNCHANGED <<selected_recipe, items, model_loaded, uploaded_file, api_response>>

\* faulty variant: the handler without the `if detections:` test of line 330
DetectHandler_NoGuard(dets) ==
    /\ detections' = Ok(dets)
    /\ \E detected_items \in ListOfSet([i \in DOMAIN dets |-> dets[i].ingredient]) :
            /\ AddedLen(ingredients, detected_items) <= MaxIngredients
            /\ \E new \in AddToSession(ingredients, detected_items) :
                /\ ingredients' = new
                /\ Rerun(new)
    /\ pc' = "detect_ingredients"
    /\ recipes' = NotCalled
    /\ UNCHANGED <<selected_recipe, items, model_loaded, uploaded_file, api_response>>

\* the "Detect Ingredients" handler once detect_from_image has returned `dets`
\* (lines 330-352)
DetectHandler(dets) ==
    /\ detections' = Ok(dets)
    /\ IF dets # <<>>
       THEN \E detected_items \in
                    ListOfSet([i \in DOMAIN dets |-> dets[i].ingredient]) :
                /\ AddedLen(ingredients, detected_items) <= MaxIngredients
                /\ \E new \in AddToSession(ingredients, detected_items) :
                    /\ ingredients' = new
                    /\ Rerun(new)
       ELSE /\ ingredients' = ingredients
            /\ Rerun(ingredients)
    /\ pc' = "detect_ingredients"
    /\ recipes' = NotCalled
    /\ UNCHANGED <<selected_recipe, items, model_loaded, uploaded_file, api_response>>

\* "Detect Ingredients" on some uploaded photo (lines 325-352)
DetectIngredients ==
    \E dets \in DetectResults(model_loaded) : DetectHandler(dets)

\* the remove button of one listed ingredient (lines 366-373)
RemoveIngredient ==
    /\ ingredients.present
    /\ \E idx \in DOMAIN ingredients.value :
            LET new == Present(Pop(ingredients.value, idx))
            IN  /\ ingredients' = new
                /\ Rerun(new)
    /\ detections' = NotCalled
    /\ pc' = "remove_ingredient"
    /\ recipes' = NotCalled
    /\ UNCHANGED <<selected_recipe, items, model_loaded, uploaded_file, api_response>>

\* sidebar "Clear All Ingredients" (lines 291-295)
ClearAllSidebar ==
    /\ LET new == IF ingredients.present THEN Present(<<>>) ELSE ingredients
       IN  /\ ingredients' = new
           /\ Rerun(new)
    /\ detections' = NotCalled
    /\ pc' = "clear_all_sidebar"
    /\ recipes' = NotCalled
    /\ UNCHANGED <<selected_recipe, items, model_loaded, uploaded_file, api_response>>

\* tab 1 "Clear All Ingredients", shown while the list is not empty
\* (lines 362, 376-378)
ClearAllTab1 ==
    /\ ingredients.present
    /\ ingredients.value # <<>>
    /\ ingredients' = Present(<<>>)
    /\ Rerun(Present(<<>>))
    /\ detections' = NotCalled
    /\ pc' = "clear_all_tab1"
    /\ recipes' = NotCalled
    /\ UNCHANGED <<selected_recipe, items, model_loaded, uploaded_file, api_response>>

\* a fresh session after the first script run: nothing in st.session_state;
\* the detector was built once by load_models, with or without a YOLO model
Init ==
    /\ ingredients = Absent
    /\ selected_recipe = Absent
    /\ missing_items = NotCalled
    /\ categorized = NotCalled
    /\ display = "select_a_recipe_first"
    /\ items = <<>>
    /\ model_loaded \in BOOLEAN
    /\ detections = NotCalled
    /\ uploaded_file = NoUpload
    /\ api_response = NoResponse
    /\ recipes = NotCalled
    /\ markdown = NotCalled
    /\ pc = "idle"

\* tab 2 "Find Recipes", shown while the list is not empty (lines 385-431).
\* The run leaves the ingredient list alone; st.session_state.recipes, which
\* it writes when the returned list is not empty, is read nowhere.
FindRecipesButton ==
    /\ ingredients.present
    /\ ingredients.value # <<>>
    /\ \E response \in ApiResponses :
            recipes' = find_recipes_by_ingredients(ingredients.value, response)
    /\ ingredients' = ingredients
    /\ Rerun(ingredients)
    /\ detections' = NotCalled
    /\ pc' = "find_recipes_button"
    /\ UNCHANGED <<selected_recipe, items, model_loaded, uploaded_file, api_response>>

Next ==
    \/ AddIngredients
    \/ DetectIngredients
    \/ RemoveIngredient
    \/ ClearAllSidebar
    \/ ClearAllTab1
    \/ FindRecipesButton

Spec == Init /\ [][Next]_vars

-----------------------------------------------------------------------------
(* SpecGen: generate_shopping_list and the Shopping List tab on every       *)
(* selected recipe and ingredient list within the bounds.                   *)

InitGen ==
    /\ ingredients \in {Absent} \cup {Present(a) : a \in AvailLists}
    /\ selected_recipe \in {Absent} \cup {Present(r) : r \in Recipes}
    /\ missing_items = NotCalled
    /\ categorized = NotCalled
    /\ display = "not_rendered"
    /\ items = <<>>
    /\ model_loaded = FALSE
    /\ detections = NotCalled
    /\ uploaded_file = NoUpload
    /\ api_response = NoResponse
    /\ recipes = NotCalled
    /\ markdown = NotCalled
    /\ pc = "idle"

RenderShoppingListTab ==
    /\ pc = "idle"
    /\ LET tab == ShoppingListTab(selected_recipe, ingredients)
       IN  /\ missing_items' = tab.missing_items
           /\ categorized' = tab.categorized
           /\ display' = tab.display
           /\ markdown' = tab.markdown
    /\ pc' = "shopping_list_tab"
    /\ UNCHANGED <<ingredients, selected_recipe, items, model_loaded, detections,
                   uploaded_file, api_response, recipes>>

NextGen == RenderShoppingListTab

SpecGen == InitGen /\ [][NextGen]_vars

-----------------------------------------------------------------------------
(* SpecCat: _categorize_items on every item list within the bounds. *)

chicken_broth == <<"c","h","i","c","k","e","n"," ","b","r","o","t","h">>
skim_milk == <<"s","k","i","m"," ","m","i","l","k">>
kiwi == <<"k","i","w","i">>
Pineapple == <<"P","i","n","e","a","p","p","l","e">>
butter_chicken == <<"b","u","t","t","e","r"," ","c","h","i","c","k","e","n">>
brown_rice == <<"b","r","o","w","n"," ","r","i","c","e">>

ItemNames ==
    {chicken_broth, skim_milk, kiwi, Pineapple, butter_chicken, brown_rice, Tomato}

InitCat ==
    /\ items \in SeqsUpTo(ItemNames, MaxItems)
    /\ ingredients = Absent
    /\ selected_recipe = Absent
    /\ missing_items = NotCalled
    /\ categorized = NotCalled
    /\ display = "not_rendered"
    /\ model_loaded = FALSE
    /\ detections = NotCalled
    /\ uploaded_file = NoUpload
    /\ api_response = NoResponse
    /\ recipes = NotCalled
    /\ markdown = NotCalled
    /\ pc = "idle"

Categorize ==
    /\ pc = "idle"
    /\ categorized' = Ok(_categorize_items(items))
    /\ pc' = "categorize"
    /\ UNCHANGED <<uploaded_file, api_response, recipes, markdown>>
    /\ UNCHANGED <<ingredients, selected_recipe, missing_items, display, items,
                   model_loaded, detections>>

\* the lists of a returned dict, concatenated in the dict's key order
RECURSIVE Flatten(_)
Flatten(dict) ==
    IF dict = <<>> THEN <<>> ELSE Head(dict).value \o Flatten(Tail(dict))

\* a second call of _categorize_items, on the flattened result of the first
Recategorize ==
    /\ pc = "categorize"
    /\ categorized.status = "ok"
    /\ items' = Flatten(categorized.value)
    /\ categorized' = Ok(_categorize_items(Flatten(categorized.value)))
    /\ pc' = "recategorize"
    /\ UNCHANGED <<ingredients, selected_recipe, missing_items, display,
                   model_loaded, detections, uploaded_file, api_response, recipes, markdown>>

NextCat == Categorize \/ Recategorize

SpecCat == InitCat /\ [][NextCat]_vars

-----------------------------------------------------------------------------
(* One detection run on one uploaded photo in a fresh session: the photo and
   whether the YOLO model loaded are drawn by InitDetect. *)

InitDetect ==
    /\ uploaded_file \in Images
    /\ model_loaded \in BOOLEAN
    /\ ingredients = Absent
    /\ selected_recipe = Absent
    /\ missing_items = NotCalled
    /\ categorized = NotCalled
    /\ display = "select_a_recipe_first"
    /\ items = <<>>
    /\ detections = NotCalled
    /\ api_response = NoResponse
    /\ recipes = NotCalled
    /\ markdown = NotCalled
    /\ pc = "idle"

\* "Detect Ingredients" on the uploaded photo (lines 325-352)
DetectUploaded ==
    /\ pc = "idle"
    /\ DetectHandler(detect_from_image(model_loaded, uploaded_file))

NextDetect == DetectUploaded

SpecDetect == InitDetect /\ [][NextDetect]_vars

-----------------------------------------------------------------------------
(* RecipeFinder.find_recipes_by_ingredients: the ingredient list and the
   answer of the recipe API are drawn by InitFind. *)

FindNames == {tomato, onion, apple}

InitFind ==
    /\ ingredients \in {Present(l) : l \in SeqsUpTo(FindNames, MaxFind)}
    /\ api_response \in ApiResponses
    /\ selected_recipe = Absent
    /\ missing_items = NotCalled
    /\ categorized = NotCalled
    /\ display = "not_rendered"
    /\ items = <<>>
    /\ model_loaded = FALSE
    /\ detections = NotCalled
    /\ uploaded_file = NoUpload
    /\ recipes = NotCalled
    /\ markdown = NotCalled
    /\ pc = "idle"

\* one call of find_recipes_by_ingredients(ingredients)
FindRecipes ==
    /\ pc = "idle"
    /\ recipes' = find_recipes_by_ingredients(ingredients.value, api_response)
    /\ pc' = "find_recipes"
    /\ UNCHANGED <<ingredients, selected_recipe, missing_items, categorized,
                   display, items, model_loaded, detections, uploaded_file,
                   api_response, markdown>>

NextFind == FindRecipes

SpecFind == InitFind /\ [][NextFind]_vars

-----------------------------------------------------------------------------
(* The Markdown export of the Shopping List tab: the selected recipe, whose
   missedIngredients become the list of missing items, is drawn by
   InitExport. *)

MaxExport == 3

\* names as a recipe record can carry them: with a line break, and with a
\* line break followed by the text of an item line
two_lines == <<"a","\n","b">>
two_item_lines == <<"a","\n","-"," ","["," ","]"," ","b">>

ExportNames == {basil, pasta, two_lines, two_item_lines}

\* text.split("\n")
RECURSIVE SplitLinesAcc(_, _, _)
SplitLinesAcc(s, cur, acc) ==
    IF s = <<>> THEN Append(acc, cur)
    ELSE IF Head(s) = "\n" THEN SplitLinesAcc(Tail(s), <<>>, Append(acc, cur))
    ELSE SplitLinesAcc(Tail(s), Append(cur, Head(s)), acc)

SplitLines(s) == SplitLinesAcc(s, <<>>, <<>>)

IsItemLine(line) ==
    Len(line) >= Len(item_prefix) /\ SubSeq(line, 1, Len(item_prefix)) = item_prefix

\* parsing the item lines back: the lines that begin with "- [ ] ", without
\* that prefix, in the order of the text
ParseItemLines(text) ==
    LET item_lines == SelectSeq(SplitLines(text), IsItemLine)
    IN  [i \in DOMAIN item_lines |->
            SubSeq(item_lines[i], Len(item_prefix) + 1, Len(item_lines[i]))]

\* a recipe whose missedIngredients list holds the names as plain strings
ExportRecipe(names) ==
    [missedIngredients |-> ListField([i \in DOMAIN names |-> PlainName(names[i])]),
     extendedIngredients |-> AbsentField]

InitExport ==
    /\ selected_recipe \in
            {Present(ExportRecipe(l)) : l \in SeqsUpTo(ExportNames, MaxExport)}
    /\ ingredients = Present(<<>>)
    /\ missing_items = NotCalled
    /\ categorized = NotCalled
    /\ display = "not_rendered"
    /\ items = <<>>
    /\ model_loaded = FALSE
    /\ detections = NotCalled
    /\ uploaded_file = NoUpload
    /\ api_response = NoResponse
    /\ recipes = NotCalled
    /\ markdown = NotCalled
    /\ pc = "idle"

\* one script run of the tab, which exports the list it shows (lines 433-483)
NextExport == RenderShoppingListTab

SpecExport == InitExport /\ [][NextExport]_vars

-----------------------------------------------------------------------------
(* Properties of generate_shopping_list, checked under SpecGen. *)

\* the Shopping List tab has run and has called generate_shopping_list
CalledGen ==
    pc = "shopping_list_tab" /\ selected_recipe.present /\ ingredients.present

\* the plain names of a list of entries, in the list's order
NamesOf(es) == [i \in DOMAIN es |-> es[i].name]

AllNamed(es) == \A i \in DOMAIN es : es[i].shape = "dict"

\* C1 as stated: a recipe with a missedIngredients list yields exactly that
\* list's names, in order, whatever is available; and extendedIngredients is
\* consulted only when the recipe has no missedIngredients key.
C1_AsStated ==
    CalledGen =>
        LET recipe == selected_recipe.value
        IN  /\ IsList(recipe.missedIngredients) =>
                  missing_items = Ok(NamesOf(recipe.missedIngredients.elems))
            /\ ConsultedField(recipe) = "extendedIngredients" =>
                  ~HasField(recipe.missedIngredients)

\* C1 amended: a recipe with a missedIngredients list yields exactly that
\* list's names, in order, whatever is available; extendedIngredients is
\* consulted only when missedIngredients is absent or is not a list.
C1_MissedListWins ==
    CalledGen =>
        LET recipe == selected_recipe.value
        IN  /\ IsList(recipe.missedIngredients) =>
                  missing_items = Ok(NamesOf(recipe.missedIngredients.elems))
            /\ ConsultedField(recipe) = "extendedIngredients" =>
                  (~HasField(recipe.missedIngredients)
                      \/ ~IsList(recipe.missedIngredients))

\* a recipe with both lists and an available ingredient that the missed list
\* names: the missed list is returned whole
C1_Witness ==
    /\ CalledGen
    /\ selected_recipe.value.missedIngredients = ListField(<<NamedEntry(Onion), PlainName(Onion)>>)
    /\ selected_recipe.value.extendedIngredients = ListField(<<NamedEntry(Tomato)>>)
    /\ ingredients.value = <<Onion>>
    /\ missing_items = Ok(<<Onion, Onion>>)

\* C2: for a recipe with only extendedIngredients (a list of {name} objects),
\* the result is exactly the subsequence of its names whose lowercase form is
\* the lowercase form of no available ingredient, casing and order kept;
\* [Tomato, Onion] with available [tomato] gives [Onion].
C2_ExtendedMinusAvailable ==
    CalledGen =>
        LET recipe == selected_recipe.value
            avail == ingredients.value
            ext == recipe.extendedIngredients
        IN  (~HasField(recipe.missedIngredients) /\ IsList(ext) /\ AllNamed(ext.elems)) =>
                /\ missing_items =
                      Ok(SelectSeq(NamesOf(ext.elems),
                                   LAMBDA n : \A a \in Range(avail) : Lower(a) # Lower(n)))
                /\ (ext.elems = <<NamedEntry(Tomato), NamedEntry(Onion)>> /\ avail = <<tomato>>)
                      => missing_items = Ok(<<Onion>>)

C2_Witness ==
    /\ CalledGen
    /\ selected_recipe.value.missedIngredients = AbsentField
    /\ selected_recipe.value.extendedIngredients =
          ListField(<<NamedEntry(Tomato), NamedEntry(Onion)>>)
    /\ ingredients.value = <<tomato>>
    /\ missing_items = Ok(<<Onion>>)

\* the list generate_shopping_list is specified to read: missedIngredients when
\* it is a list, else extendedIngredients
SourceEntries(recipe) ==
    IF IsList(recipe.missedIngredients) THEN recipe.missedIngredients.elems
    ELSE recipe.extendedIngredients.elems

\* C3 as stated: when every entry is a plain string or an object with a name,
\* the call raises nothing and every element of the result is the plain name
\* of an entry of the list it was read from.
C3_BothShapesAccepted ==
    CalledGen =>
        /\ missing_items.status = "ok"
        /\ \A i \in DOMAIN missing_items.value :
              \E j \in DOMAIN SourceEntries(selected_recipe.value) :
                  SourceEntries(selected_recipe.value)[j].name = missing_items.value[i]

\* C4: a recipe with neither field yields the empty list and no error, for
\* every available list.
C4_NeitherFieldGivesEmpty ==
    CalledGen =>
        LET recipe == selected_recipe.value
        IN  (~HasField(recipe.missedIngredients) /\ ~HasField(recipe.extendedIngredients))
                => missing_items = Ok(<<>>)

C4_Witness ==
    /\ CalledGen
    /\ ~HasField(selected_recipe.value.missedIngredients)
    /\ ~HasField(selected_recipe.value.extendedIngredients)
    /\ ingredients.value = <<Tomato, Onion>>
    /\ missing_items = Ok(<<>>)

\* C9 as stated: no item of the produced shopping list is an ingredient of
\* the current ingredient list.
C9_AsStated ==
    CalledGen =>
        \A i \in DOMAIN missing_items.value :
            missing_items.value[i] \notin Range(ingredients.value)

\* C9 amended: when the recipe has no missedIngredients list (the list is
\* computed from extendedIngredients), no item of the produced shopping list
\* equals, compared case-insensitively, an ingredient of the current list.
C9_ExtendedPathExcludesAvailable ==
    (CalledGen /\ ~IsList(selected_recipe.value.missedIngredients)) =>
        \A i \in DOMAIN missing_items.value :
            \A j \in DOMAIN ingredients.value :
                Lower(missing_items.value[i]) # Lower(ingredients.value[j])

\* an extendedIngredients list that names an available ingredient in another
\* casing, and one that is not available
C9_Witness ==
    /\ CalledGen
    /\ ~IsList(selected_recipe.value.missedIngredients)
    /\ selected_recipe.value.extendedIngredients =
          ListField(<<NamedEntry(Onion), NamedEntry(Tomato)>>)
    /\ ingredients.value = <<tomato, tomato>>
    /\ missing_items = Ok(<<Onion>>)

\* C10 as stated: the produced shopping list contains no item twice, also
\* when the recipe's source list names an ingredient more than once.
C10_NoItemTwice ==
    CalledGen => NoDup(missing_items.value)

-----------------------------------------------------------------------------
(* Properties of _categorize_items, checked under SpecCat. *)

CalledCat == pc = "categorize"

\* the keyword lists in the declaration order of their categories
KeywordLists ==
    <<veg_keywords, fruit_keywords, dairy_keywords, meat_keywords, pantry_keywords>>

\* the category the matching rule assigns: the first category, in declaration
\* order, one of whose keywords is a substring of the lowercased item
FirstMatching(item) ==
    LET hits == {c \in DOMAIN KeywordLists :
                    \E k \in DOMAIN KeywordLists[c] :
                        Contains(KeywordLists[c][k], Lower(item))}
    IN  IF hits = {} THEN "Other"
        ELSE CategoryOrder[CHOOSE c \in hits : \A d \in hits : c <= d]

\* the list a returned dict holds under a key, empty when the key is missing
ListUnder(dict, key) ==
    IF \E i \in DOMAIN dict : dict[i].key = key
    THEN dict[CHOOSE i \in DOMAIN dict : dict[i].key = key].value
    ELSE <<>>

\* C5: each category's list is exactly the subsequence of the input whose
\* first matching category it is (Other when none matches), in input order;
\* so every item is in exactly one category.
C5_FirstMatchPartition ==
    CalledCat =>
        /\ categorized.status = "ok"
        /\ \A i, j \in DOMAIN categorized.value :
              categorized.value[i].key = categorized.value[j].key => i = j
        /\ \A i \in DOMAIN categorized.value :
              categorized.value[i].key \in Range(CategoryOrder)
        /\ \A c \in Range(CategoryOrder) :
              ListUnder(categorized.value, c) =
                  SelectSeq(items, LAMBDA it : FirstMatching(it) = c)

\* "chicken broth" lands in Meat, "butter chicken" in Dairy (declared before
\* Meat), "Pineapple" in Fruits by its lowercase form, "kiwi" in Other
C5_Witness ==
    /\ CalledCat
    /\ items = <<chicken_broth, butter_chicken, Pineapple>>
    /\ ListUnder(categorized.value, "Meat") = <<chicken_broth>>
    /\ ListUnder(categorized.value, "Dairy") = <<butter_chicken>>
    /\ ListUnder(categorized.value, "Fruits") = <<Pineapple>>
    /\ ListUnder(categorized.value, "Other") = <<>>

\* position of a category in the declaration order
DeclIndex(key) == CHOOSE i \in DOMAIN CategoryOrder : CategoryOrder[i] = key

\* C6: the returned map has no category with an empty list, and its keys
\* iterate in declaration order whatever the order of the items;
\* ["chicken broth", "skim milk", "kiwi"] gives the keys Dairy, Meat, Other.
C6_NoEmptyDeclarationOrder ==
    CalledCat =>
        /\ \A i \in DOMAIN categorized.value : categorized.value[i].value # <<>>
        /\ \A i, j \in DOMAIN categorized.value :
              i < j => DeclIndex(categorized.value[i].key) < DeclIndex(categorized.value[j].key)
        /\ items = <<chicken_broth, skim_milk, kiwi>> =>
              [i \in DOMAIN categorized.value |-> categorized.value[i].key]
                  = <<"Dairy", "Meat", "Other">>

C6_Witness ==
    /\ CalledCat
    /\ items = <<chicken_broth, skim_milk, kiwi>>
    /\ categorized.value = << [key |-> "Dairy", value |-> <<skim_milk>>],
                              [key |-> "Meat", value |-> <<chicken_broth>>],
                              [key |-> "Other", value |-> <<kiwi>>] >>

\* C13: categorizing the lists of _categorize_items(items), flattened in key
\* order, yields the same map again: same keys in the same order, same list
\* under each key.
C13_RecategorizeSameMap ==
    [][pc' = "recategorize" =>
            /\ categorized'.status = "ok"
            /\ categorized' = categorized]_vars

\* the first call moved "skim milk" before "chicken broth" and "Tomato" to the
\* front; the second call has run on that reordered list
C13_Witness ==
    /\ pc = "recategorize"
    /\ items = <<Tomato, skim_milk, chicken_broth>>
    /\ categorized.value = << [key |-> "Vegetables", value |-> <<Tomato>>],
                              [key |-> "Dairy", value |-> <<skim_milk>>],
                              [key |-> "Meat", value |-> <<chicken_broth>>] >>

-----------------------------------------------------------------------------
(* Properties of the session ingredient list, checked under Spec. *)

\* C7 as stated: after any sequence of manual adds, detection adds, removes
\* and clears from an absent list, no two entries of the session ingredient
\* list are equal when compared case-insensitively.
C7_NoCaseInsensitiveDuplicates ==
    ingredients.present =>
        \A i, j \in DOMAIN ingredients.value :
            Lower(ingredients.value[i]) = Lower(ingredients.value[j]) => i = j

\* C8 as stated: after any sequence of session operations, every entry of the
\* session ingredient list is a non-empty, trimmed, lowercase string.
C8_EntriesNonEmptyTrimmedLowercase ==
    ingredients.present =>
        \A i \in DOMAIN ingredients.value :
            LET e == ingredients.value[i]
            IN  e # <<>> /\ Strip(e) = e /\ Lower(e) = e

-----------------------------------------------------------------------------
(* Properties of the Shopping List tab's display, checked under SpecGen. *)

\* the selected recipe has neither missedIngredients nor extendedIngredients
NoData(recipe) ==
    ~HasField(recipe.missedIngredients) /\ ~HasField(recipe.extendedIngredients)

\* a field is present and nothing of it is missing
NothingMissing(recipe, avail) ==
    ~NoData(recipe) /\ generate_shopping_list(recipe, avail) = Ok(<<>>)

\* what the tab displays in the "nothing missing" cases
NothingMissingDisplays ==
    {ShoppingListTab(Present(recipe), Present(avail)).display :
        <<recipe, avail>> \in {ra \in Recipes \X AvailLists :
                                  NothingMissing(ra[1], ra[2])}}

\* C16 as stated: the display the tab reaches for a recipe with neither field
\* ("no data available") is never a display it reaches for a recipe with a
\* field present and nothing missing.
C16_NoDataDisplayedApart ==
    (CalledGen /\ NoData(selected_recipe.value)) =>
        display \notin NothingMissingDisplays

-----------------------------------------------------------------------------
(* Properties of a detection run, checked under SpecDetect. *)

\* the Detect handler has run on the uploaded photo
CalledDetect == pc = "detect_ingredients" /\ uploaded_file # NoUpload

\* the de-duplicated 'ingredient' fields of the run, as the handler stores them
\* in a fresh session (nothing is stored when nothing was detected)
Normalized == IF ingredients.present THEN ingredients.value ELSE <<>>

\* the mapping-table images of the labels the inference returned
MappedImages ==
    {IngredientClass(l) :
        l \in {x \in Range(uploaded_file.labels) : InIngredientClasses(x)}}

\* the inference ran and returned its labels
InferenceRan == model_loaded /\ uploaded_file.yolo = "ok"

\* C11 as stated: whenever the inference returned a sequence of raw
\* detections, the normalized ingredient set has no duplicate entries and
\* every entry is the mapping-table image of a detected label, so that
\* unmapped labels contribute nothing.
C11_AsStated ==
    (CalledDetect /\ InferenceRan) =>
        /\ NoDup(Normalized)
        /\ Range(Normalized) \subseteq MappedImages

-----------------------------------------------------------------------------
(* Properties of the Detect handler in a running session, checked under
   Spec. *)

\* C12: a detection run that yields an empty detection sequence raises no
\* error and leaves the session ingredient list exactly as it was before the
\* run, absent if it was absent.
C12_EmptyDetectionLeavesList ==
    [][(pc' = "detect_ingredients" /\ detections'.value = <<>>) =>
            /\ detections'.status = "ok"
            /\ ingredients' = ingredients]_vars

C12_Witness ==
    /\ pc = "detect_ingredients"
    /\ detections = Ok(<<>>)
    /\ ingredients.present
    /\ Len(ingredients.value) = 2
    /\ display = "select_a_recipe_first"

-----------------------------------------------------------------------------
(* Properties of the Markdown export, checked under SpecExport. *)

\* C14 as stated: for every shopping list, parsing the item lines of its
\* checklist markup back recovers the original list: same items, same order,
\* same length.
C14_RoundTrip ==
    (pc = "shopping_list_tab" /\ display = "items_to_buy") =>
        /\ markdown.status = "ok"
        /\ ParseItemLines(markdown.value) = missing_items.value

-----------------------------------------------------------------------------
(* Properties of find_recipes_by_ingredients, checked under SpecFind. *)

CalledFind == pc = "find_recipes"

\* the call answered with the fallback recipes: no response, a status other
\* than 200, or a body that is no JSON
UsedFallback ==
    \/ api_response.outcome = "exception"
    \/ api_response.status_code # 200
    \/ api_response.body = "not_json"

\* C15 as stated: whatever the API outcome, find_recipes_by_ingredients does
\* not raise and returns a list of recipes, and for the ingredient list
\* ['tomato', 'onion'] the returned list is non-empty.
C15_AsStated ==
    CalledFind =>
        /\ recipes.status = "ok"
        /\ ingredients.value = <<tomato, onion>> => recipes.value # <<>>

\* C15 amended: find_recipes_by_ingredients never raises.  When the API gives
\* no response, a status other than 200 or a body that is no JSON, it returns
\* a list of at most five recipes, one fallback recipe per occurrence of
\* 'apple' or 'tomato' in the ingredient list, in that order, so a non-empty
\* list for ['tomato', 'onion'].  On HTTP 200 it returns the parsed body as it
\* is: the API's list, possibly empty.
C15_NeverRaisesFallbackOrBody ==
    CalledFind =>
        /\ recipes.status = "ok"
        /\ UsedFallback =>
              /\ LET hits == SelectSeq(ingredients.value,
                                       LAMBDA g : g \in {apple, tomato})
                     got == recipes.value
                 IN  /\ Len(got) = IF Len(hits) <= 5 THEN Len(hits) ELSE 5
                     /\ \A i \in DOMAIN got :
                            got[i] = IF hits[i] = apple THEN AppleSalad
                                     ELSE TomatoPasta
              /\ ingredients.value = <<tomato, onion>> =>
                    recipes.value = <<TomatoPasta>>
        /\ ~UsedFallback => recipes.value = api_response.recipes

C15_Witness ==
    /\ CalledFind
    /\ ingredients.value = <<tomato, onion>>
    /\ api_response.outcome = "response"
    /\ api_response.status_code = 402
    /\ recipes = Ok(<<TomatoPasta>>)

\* C17: a manual add or a detection add keeps every ingredient that was in
\* the session list before it; a step that takes an ingredient out of the
\* list is a remove of one item or a clear.
C17_AddNeverOverwrites ==
    [][/\ pc' \in {"add_ingredients", "detect_ingredients"} =>
              Range(ingredients.value) \subseteq Range(ingredients'.value)
       /\ ~(Range(ingredients.value) \subseteq Range(ingredients'.value)) =>
              pc' \in {"remove_ingredient", "clear_all_sidebar", "clear_all_tab1"}
      ]_vars

\* a manual add has run on a list that a detection had filled
C17_Witness ==
    /\ pc = "add_ingredients"
    /\ ingredients.present
    /\ Len(ingredients.value) = 2
    /\ sausage \in Range(ingredients.value)

=============================================================================
